---------------------------- MODULE Spec2Model ----------------------------
(***************************************************************************)
(* Timeline engine of lite-vidrush: the pure transition functions and     *)
(* queries of lib/timelineOps.ts and the zustand editor store built on     *)
(* them.                                                                   *)
(*                                                                         *)
(* Encoding of JavaScript values:                                          *)
(*  - a clip or text overlay is a function from field names to values; a   *)
(*    field that is absent reads as Undefined (Get);                       *)
(*  - numbers are integers; NaN and undefined are one sentinel, Undefined, *)
(*    because every numeric use of undefined coerces it to NaN;            *)
(*  - ids are the positive integers handed out by generateId, null is Null;*)
(*  - zoom and volumes are held in tenths (1.0 is 10).                     *)
(*                                                                         *)
(* components/Preview.tsx adds the playback clock: playerFrame is the      *)
(* frame of the player, previewIsPlaying the isPlaying value the component *)
(* last rendered with (it decides whether the player runs and whether the  *)
(* 100 ms interval is installed).  The frames from ClockHorizon on are one *)
(* value of playerFrame, and playerParity is the parity of the frames the  *)
(* player has advanced beyond it.  seekHeld is a history variable: a       *)
(* seekTo stopped playback and playback has not been started since.        *)
(***************************************************************************)
EXTENDS Integers, Sequences, FiniteSets, TLC

VARIABLES media, texts, selectedId, playhead, frameRate, duration, isPlaying,
          masterVolume, muted, zoom, scrollPosition,
          nextId, calls, last, pre, returned,
          playerFrame, playerParity, previewIsPlaying, seekHeld

vars == <<media, texts, selectedId, playhead, frameRate, duration, isPlaying,
          masterVolume, muted, zoom, scrollPosition, nextId, calls, last, pre,
          returned, playerFrame, playerParity, previewIsPlaying, seekHeld>>

---------------------------------------------------------------------------
(* Bounds of the model *)

\* ids generated in one run (generateId never repeats an id)
MaxIds == 2
\* longest clip list explored (reorderClips can lengthen the list)
MaxClips == 2
\* store calls in one run
MaxCalls == 3
\* clips and text overlays of the states handed to the pure functions
PureMaxClips == 2
PureMaxTexts == 1
\* clips of the states handed to reorderClips alone
ReorderMaxClips == 3
\* clips and text overlays of the states handed to the queries
QueryMaxClips == 3
QueryMaxTexts == 2

---------------------------------------------------------------------------
(* JavaScript values *)

Null == 0
Undefined == 0 - 100000
NaN == Undefined

EmptyObject == [f \in {} |-> Undefined]

Get(obj, field) == IF field \in DOMAIN obj THEN obj[field] ELSE Undefined

\* {...base, ...over}: the later spread wins
Spread(base, over) == over @@ base

MathMax(a, b) == IF a = NaN \/ b = NaN THEN NaN ELSE IF a >= b THEN a ELSE b
MathMin(a, b) == IF a = NaN \/ b = NaN THEN NaN ELSE IF a <= b THEN a ELSE b
Plus(a, b) == IF a = NaN \/ b = NaN THEN NaN ELSE a + b
Minus(a, b) == IF a = NaN \/ b = NaN THEN NaN ELSE a - b
Times(a, b) == IF a = NaN \/ b = NaN THEN NaN ELSE a * b
Gt(a, b) == a # NaN /\ b # NaN /\ a > b
Ge(a, b) == a # NaN /\ b # NaN /\ a >= b
Lt(a, b) == a # NaN /\ b # NaN /\ a < b
Le(a, b) == a # NaN /\ b # NaN /\ a <= b
Truthy(x) == x # Undefined /\ x # 0

\* Array.prototype.splice: the start index, relative to the end when negative
SpliceStart(len, index) ==
  IF index < 0 THEN (IF len + index > 0 THEN len + index ELSE 0)
  ELSE (IF index < len THEN index ELSE len)

---------------------------------------------------------------------------
(* lib/types.ts *)

DefaultFrameRate == 30
DefaultDuration == 900
DefaultVolume == 10
DefaultZoom == 10

DEFAULT_EDITOR_STATE ==
  [media |-> <<>>, texts |-> <<>>, selectedId |-> Null, playhead |-> 0,
   frameRate |-> DefaultFrameRate, duration |-> DefaultDuration,
   isPlaying |-> FALSE, masterVolume |-> DefaultVolume, muted |-> FALSE,
   zoom |-> DefaultZoom, scrollPosition |-> 0]

---------------------------------------------------------------------------
(* lib/timelineOps.ts: pure functions over an EditorState record s *)

\* an insert that puts the new clip in front of the list
addClipPrepending(s, clip, id) ==
  LET newClip == Spread(clip, [id |-> id, order |-> Len(s.media)])
  IN [s EXCEPT !.media = <<newClip>> \o s.media, !.selectedId = id]

addClip(s, clip, id) ==
  LET newClip == Spread(clip, [id |-> id, order |-> Len(s.media)])
  IN [s EXCEPT !.media = Append(s.media, newClip), !.selectedId = id]

addTextOverlay(s, text, id) ==
  LET newText == Spread(text, [id |-> id])
  IN [s EXCEPT !.texts = Append(s.texts, newText), !.selectedId = id]

\* a removal that clears the selection whatever it points at
removeItemClearingSelection(s, id) ==
  LET keptMedia == SelectSeq(s.media, LAMBDA clip : Get(clip, "id") # id)
      keptTexts == SelectSeq(s.texts, LAMBDA text : Get(text, "id") # id)
  IN [s EXCEPT
        !.media = [i \in 1..Len(keptMedia) |->
                     Spread(keptMedia[i], [order |-> i - 1])],
        !.texts = keptTexts,
        !.selectedId = Null]

\* a removal that leaves the order fields of the remaining clips as they were
removeItemKeepingOrder(s, id) ==
  LET keptMedia == SelectSeq(s.media, LAMBDA clip : Get(clip, "id") # id)
      keptTexts == SelectSeq(s.texts, LAMBDA text : Get(text, "id") # id)
  IN [s EXCEPT
        !.media = keptMedia,
        !.texts = keptTexts,
        !.selectedId = IF s.selectedId = id THEN Null ELSE s.selectedId]

\* a removal that never touches the selection
removeItemKeepingSelection(s, id) ==
  LET keptMedia == SelectSeq(s.media, LAMBDA clip : Get(clip, "id") # id)
      keptTexts == SelectSeq(s.texts, LAMBDA text : Get(text, "id") # id)
  IN [s EXCEPT
        !.media = [i \in 1..Len(keptMedia) |->
                     Spread(keptMedia[i], [order |-> i - 1])],
        !.texts = keptTexts]

removeItem(s, id) ==
  LET keptMedia == SelectSeq(s.media, LAMBDA clip : Get(clip, "id") # id)
      keptTexts == SelectSeq(s.texts, LAMBDA text : Get(text, "id") # id)
  IN [s EXCEPT
        !.media = [i \in 1..Len(keptMedia) |->
                     Spread(keptMedia[i], [order |-> i - 1])],
        !.texts = keptTexts,
        !.selectedId = IF s.selectedId = id THEN Null ELSE s.selectedId]

\* a trim without the one-frame floor
TrimmedItemNoFloor(item, newStartFrame, newEndFrame) ==
  Spread(item, [startFrame |-> MathMax(0, newStartFrame),
                endFrame |-> newEndFrame])

TrimmedItem(item, newStartFrame, newEndFrame) ==
  Spread(item, [startFrame |-> MathMax(0, newStartFrame),
                endFrame |-> MathMax(Plus(newStartFrame, 1), newEndFrame)])

\* a trim that gives the new range to every clip, whatever its id
trimClipEveryClip(s, clipId, newStartFrame, newEndFrame) ==
  [s EXCEPT !.media = [i \in 1..Len(s.media) |->
     TrimmedItem(s.media[i], newStartFrame, newEndFrame)]]

trimClip(s, clipId, newStartFrame, newEndFrame) ==
  [s EXCEPT !.media = [i \in 1..Len(s.media) |->
     IF Get(s.media[i], "id") = clipId
       THEN TrimmedItem(s.media[i], newStartFrame, newEndFrame)
       ELSE s.media[i]]]

trimTextOverlay(s, textId, newStartFrame, newEndFrame) ==
  [s EXCEPT !.texts = [i \in 1..Len(s.texts) |->
     IF Get(s.texts[i], "id") = textId
       THEN TrimmedItem(s.texts[i], newStartFrame, newEndFrame)
       ELSE s.texts[i]]]

\* a reorder that moves the clip and leaves every order field as it was
reorderClipsKeepingOrder(s, fromIndex, toIndex) ==
  LET len == Len(s.media)
      from == SpliceStart(len, fromIndex)
      movedClip == IF from < len THEN s.media[from + 1] ELSE EmptyObject
      rest == IF from < len
                THEN SubSeq(s.media, 1, from) \o SubSeq(s.media, from + 2, len)
                ELSE s.media
      to == SpliceStart(Len(rest), toIndex)
  IN [s EXCEPT !.media = SubSeq(rest, 1, to) \o <<movedClip>>
                           \o SubSeq(rest, to + 1, Len(rest))]

\* a reorder that swaps the clips at the two indices instead of moving one
reorderClipsSwapping(s, fromIndex, toIndex) ==
  LET len == Len(s.media)
      from == SpliceStart(len, fromIndex)
      to == SpliceStart(len, toIndex)
      swapped == [i \in 1..len |->
                    IF from < len /\ to < len /\ i = from + 1
                      THEN s.media[to + 1]
                    ELSE IF from < len /\ to < len /\ i = to + 1
                      THEN s.media[from + 1]
                    ELSE s.media[i]]
  IN [s EXCEPT !.media = [i \in 1..len |->
                            Spread(swapped[i], [order |-> i - 1])]]

reorderClips(s, fromIndex, toIndex) ==
  LET len == Len(s.media)
      from == SpliceStart(len, fromIndex)
      \* splice(fromIndex, 1) removes nothing when its start is the length:
      \* movedClip is then undefined, and {...undefined} is the empty object
      movedClip == IF from < len THEN s.media[from + 1] ELSE EmptyObject
      rest == IF from < len
                THEN SubSeq(s.media, 1, from) \o SubSeq(s.media, from + 2, len)
                ELSE s.media
      to == SpliceStart(Len(rest), toIndex)
      newMedia == SubSeq(rest, 1, to) \o <<movedClip>>
                    \o SubSeq(rest, to + 1, Len(rest))
  IN [s EXCEPT !.media = [i \in 1..Len(newMedia) |->
                            Spread(newMedia[i], [order |-> i - 1])]]

\* a seek that clamps the playhead and leaves the transport as it was
setPlayheadKeepingTransport(s, frame) ==
  [s EXCEPT !.playhead = MathMax(0, MathMin(frame, s.duration))]

setPlayhead(s, frame) ==
  [s EXCEPT !.playhead = MathMax(0, MathMin(frame, s.duration)),
            !.isPlaying = FALSE]

\* a toggle that always starts the playback
togglePlaybackStarting(s) == [s EXCEPT !.isPlaying = TRUE]

togglePlayback(s) == [s EXCEPT !.isPlaying = ~s.isPlaying]

\* a zoom that stores the level as given
setZoomUnclamped(s, z) == [s EXCEPT !.zoom = z]

\* zoom in tenths: the clamp to [0.1, 10] is a clamp to [1, 100]
setZoom(s, z) == [s EXCEPT !.zoom = MathMax(1, MathMin(z, 100))]

\* a selection that validates: an id of nothing selects nothing
selectItemValidated(s, id) ==
  [s EXCEPT !.selectedId =
     IF \E i \in 1..Len(s.media) : Get(s.media[i], "id") = id THEN id
     ELSE IF \E j \in 1..Len(s.texts) : Get(s.texts[j], "id") = id THEN id
     ELSE Null]

selectItem(s, id) == [s EXCEPT !.selectedId = id]

RECURSIVE MaxEndFrame(_)
MaxEndFrame(items) ==
  IF Len(items) = 0 THEN 0
  ELSE MathMax(Get(Head(items), "endFrame"), MaxEndFrame(Tail(items)))

\* a content extent that looks at the clips only
calculateTimelineDurationClipsOnly(s) == MaxEndFrame(s.media)

calculateTimelineDuration(s) == MaxEndFrame(s.media \o s.texts)

getMinimumTimelineDuration(s) == calculateTimelineDuration(s)

\* an optimal duration without the ten-second floor
getOptimalTimelineDurationNoFloor(s, bufferSeconds) ==
  LET minDuration == getMinimumTimelineDuration(s)
      bufferFrames == Times(bufferSeconds, s.frameRate)
  IN Plus(minDuration, bufferFrames)

getOptimalTimelineDuration(s, bufferSeconds) ==
  LET minDuration == getMinimumTimelineDuration(s)
      bufferFrames == Times(bufferSeconds, s.frameRate)
  IN MathMax(Plus(minDuration, bufferFrames), Times(s.frameRate, 10))

\* an auto-adjust that sets the optimal duration without the ratchet
autoAdjustTimelineDurationNoRatchet(s) ==
  [s EXCEPT !.duration = getOptimalTimelineDuration(s, 2)]

autoAdjustTimelineDuration(s) ==
  LET optimalDuration == getOptimalTimelineDuration(s, 2)
  IN [s EXCEPT !.duration = MathMax(optimalDuration, s.duration)]

\* a fit that never shrinks
fitTimelineToContentNoShrink(s) ==
  [s EXCEPT !.duration = MathMax(MathMax(getMinimumTimelineDuration(s),
                                         Times(s.frameRate, 5)), s.duration)]

fitTimelineToContent(s) ==
  LET minDuration == MathMax(getMinimumTimelineDuration(s),
                             Times(s.frameRate, 5))
  IN [s EXCEPT !.duration = minDuration]

\* no sort: the items in list order
SortedByStartFrameListOrder(items) == items

\* Array.prototype.sort with (a, b) => a.startFrame - b.startFrame on items
\* whose startFrame is a number: ascending, and stable (items with equal
\* startFrame keep their list order)
RECURSIVE SortedByStartFrame(_)
SortedByStartFrame(items) ==
  IF Len(items) = 0 THEN <<>>
  ELSE LET front == SortedByStartFrame(SubSeq(items, 1, Len(items) - 1))
           x == items[Len(items)]
           k == Cardinality({i \in 1..Len(front) :
                               front[i].startFrame <= x.startFrame})
       IN SubSeq(front, 1, k) \o <<x>> \o SubSeq(front, k + 1, Len(front))

getTimelineItems(s) ==
  LET clipItems == [i \in 1..Len(s.media) |->
        [id |-> Get(s.media[i], "id"), type |-> "clip",
         startFrame |-> Get(s.media[i], "startFrame"),
         endFrame |-> Get(s.media[i], "endFrame"),
         order |-> Get(s.media[i], "order"), data |-> s.media[i]]]
      textItems == [j \in 1..Len(s.texts) |->
        [id |-> Get(s.texts[j], "id"), type |-> "text",
         startFrame |-> Get(s.texts[j], "startFrame"),
         endFrame |-> Get(s.texts[j], "endFrame"),
         order |-> 0, data |-> s.texts[j]]]
  IN SortedByStartFrame(clipItems \o textItems)

\* a visibility test that includes the end frame
getItemsAtFrameClosed(s, frame) ==
  SelectSeq(getTimelineItems(s),
            LAMBDA item : Ge(frame, item.startFrame) /\ Le(frame, item.endFrame))

getItemsAtFrame(s, frame) ==
  SelectSeq(getTimelineItems(s),
            LAMBDA item : Ge(frame, item.startFrame) /\ Lt(frame, item.endFrame))

\* the diagnostics of validateTimelineState as records: the kind of the
\* message and the values it interpolates
\* `Clip ${current.id} overlaps with clip ${next.id}`
OverlapError(current, next) ==
  [kind |-> "overlaps", id |-> Get(current, "id"), a |-> Get(next, "id"),
   b |-> Undefined]
\* `Item ${item.id} has invalid frame range: ${item.startFrame}-${item.endFrame}`
RangeError(item) ==
  [kind |-> "invalid frame range", id |-> Get(item, "id"),
   a |-> Get(item, "startFrame"), b |-> Get(item, "endFrame")]
\* `Item ${item.id} has negative start frame: ${item.startFrame}`
NegativeError(item) ==
  [kind |-> "negative start frame", id |-> Get(item, "id"),
   a |-> Get(item, "startFrame"), b |-> Undefined]

\* an overlap test that also reports clips that only touch
RECURSIVE OverlapErrorsTouching(_)
OverlapErrorsTouching(sortedClips) ==
  IF Len(sortedClips) < 2 THEN <<>>
  ELSE (IF Ge(Get(sortedClips[1], "endFrame"), Get(sortedClips[2], "startFrame"))
          THEN <<OverlapError(sortedClips[1], sortedClips[2])>> ELSE <<>>)
       \o OverlapErrorsTouching(Tail(sortedClips))

\* the loop over i < sortedClips.length - 1
RECURSIVE OverlapErrors(_)
OverlapErrors(sortedClips) ==
  IF Len(sortedClips) < 2 THEN <<>>
  ELSE (IF Gt(Get(sortedClips[1], "endFrame"), Get(sortedClips[2], "startFrame"))
          THEN <<OverlapError(sortedClips[1], sortedClips[2])>> ELSE <<>>)
       \o OverlapErrors(Tail(sortedClips))

\* the forEach over [...state.media, ...state.texts]
RECURSIVE FrameRangeErrors(_)
FrameRangeErrors(items) ==
  IF Len(items) = 0 THEN <<>>
  ELSE (IF Ge(Get(Head(items), "startFrame"), Get(Head(items), "endFrame"))
          THEN <<RangeError(Head(items))>> ELSE <<>>)
       \o (IF Lt(Get(Head(items), "startFrame"), 0)
             THEN <<NegativeError(Head(items))>> ELSE <<>>)
       \o FrameRangeErrors(Tail(items))

validateTimelineState(s) ==
  OverlapErrors(SortedByStartFrame(s.media)) \o FrameRangeErrors(s.media \o s.texts)

---------------------------------------------------------------------------
(* Inputs explored *)

\* frames given to seekTo and setPlayhead: negative, inside, past the end
SeekArgs == {0 - 2, 5, DefaultDuration + 1}
\* durations given to setDuration: negative and small
DurationArgs == {0 - 2, 5}
\* ranges supplied to the inserts: a short item and a five-second one
InsertRanges == {<<0, 9>>, <<0, 150>>}
\* (newStartFrame, newEndFrame) given to the trims: an ordinary range, a
\* negative start with an end that is not positive, an end past the default
\* duration, a start at the default duration with an end before it
TrimArgs == {<<1, 5>>, <<0 - 2, 0>>, <<0, DefaultDuration + 1>>,
             <<DefaultDuration, 0>>}
IdArgs == 1..MaxIds
IndexArgs == (0 - 1)..MaxClips
\* seconds given to extendTimeline and shrinkTimeline
SecondsArgs == {0 - 30, 30}
\* zoom levels in tenths: below 0.1, inside the range and above 10
ZoomArgs == {0, 25, 200}
\* volumes in tenths: below 0, inside, above 1
VolumeArgs == {0 - 5, 5, 15}
\* frame rates given to setFrameRate: below 1 and a film rate
FrameRateArgs == {0, 24}
\* Partial<Clip> / Partial<TextOverlay> objects passed to the updates
UpdateArgs == {[endFrame |-> DefaultDuration + 1], [endFrame |-> 0],
               [startFrame |-> 5]}

---------------------------------------------------------------------------
(* lib/store.ts: the zustand store *)

State ==
  [media |-> media, texts |-> texts, selectedId |-> selectedId,
   playhead |-> playhead, frameRate |-> frameRate, duration |-> duration,
   isPlaying |-> isPlaying, masterVolume |-> masterVolume, muted |-> muted,
   zoom |-> zoom, scrollPosition |-> scrollPosition]

\* the isPlaying subscriber: when playback has just stopped at or past the end
\* of the timeline it calls pause()
StopAtEnd(old, new) ==
  IF new.isPlaying # old.isPlaying /\ ~new.isPlaying
       /\ Ge(new.playhead, new.duration)
    THEN [new EXCEPT !.isPlaying = FALSE]
    ELSE new

\* set(...): the draft becomes the store state, then the subscribers run
Commit(new) ==
  \E s \in {StopAtEnd(State, new)} :
    /\ media' = s.media
    /\ texts' = s.texts
    /\ selectedId' = s.selectedId
    /\ playhead' = s.playhead
    /\ frameRate' = s.frameRate
    /\ duration' = s.duration
    /\ isPlaying' = s.isPlaying
    /\ masterVolume' = s.masterVolume
    /\ muted' = s.muted
    /\ zoom' = s.zoom
    /\ scrollPosition' = s.scrollPosition

\* history: the number of calls so far, the latest call with its arguments,
\* and the state it was applied to; returned holds the value of a query and
\* is undefined after a call that returns the state or nothing; a store call
\* touches neither the player nor the rendered component
Called(op, id, a, b) ==
  /\ calls' = calls + 1
  /\ last' = [op |-> op, id |-> id, a |-> a, b |-> b]
  /\ pre' = State
  /\ returned' = Undefined
  /\ seekHeld' = IF isPlaying' THEN FALSE
                 ELSE IF op = "seekTo" /\ isPlaying THEN TRUE
                 ELSE seekHeld
  /\ UNCHANGED <<playerFrame, playerParity, previewIsPlaying>>

ItemData(range) == [startFrame |-> range[1], endFrame |-> range[2]]

\* an insert that fits the timeline to the content instead of ratcheting it
StoreAddClipResultFitting(s, clip, id) == fitTimelineToContent(addClip(s, clip, id))

StoreAddClipResult(s, clip, id) == autoAdjustTimelineDuration(addClip(s, clip, id))

StoreAddClip ==
  \E r \in InsertRanges :
    /\ calls < MaxCalls
    /\ nextId <= MaxIds
    /\ Len(media) < MaxClips
    /\ Commit(StoreAddClipResult(State, ItemData(r), nextId))
    /\ nextId' = nextId + 1
    /\ Called("addClip", nextId, r[1], r[2])

StoreAddTextOverlayResult(s, text, id) ==
  autoAdjustTimelineDuration(addTextOverlay(s, text, id))

StoreAddTextOverlay ==
  \E r \in InsertRanges :
    /\ calls < MaxCalls
    /\ nextId <= MaxIds
    /\ Commit(StoreAddTextOverlayResult(State, ItemData(r), nextId))
    /\ nextId' = nextId + 1
    /\ Called("addTextOverlay", nextId, r[1], r[2])

\* what removal would do if it re-fitted the timeline to the remaining content
StoreRemoveItemResultFitting(s, id) == fitTimelineToContent(removeItem(s, id))

StoreRemoveItemResult(s, id) == removeItem(s, id)

StoreRemoveItem ==
  \E id \in IdArgs :
    /\ calls < MaxCalls
    /\ Commit(StoreRemoveItemResult(State, id))
    /\ Called("removeItem", id, Undefined, Undefined)
    /\ UNCHANGED nextId

StoreTrimClipResult(s, clipId, startFrame, endFrame) ==
  LET newState == trimClip(s, clipId, startFrame, endFrame)
      maxFrame == MathMax(startFrame, endFrame)
  IN IF Gt(maxFrame, s.duration)
       THEN autoAdjustTimelineDuration(newState)
       ELSE newState

StoreTrimClip ==
  \E id \in IdArgs, r \in TrimArgs :
    /\ calls < MaxCalls
    /\ Commit(StoreTrimClipResult(State, id, r[1], r[2]))
    /\ Called("trimClip", id, r[1], r[2])
    /\ UNCHANGED nextId

StoreTrimTextOverlayResult(s, textId, startFrame, endFrame) ==
  LET newState == trimTextOverlay(s, textId, startFrame, endFrame)
      maxFrame == MathMax(startFrame, endFrame)
  IN IF Gt(maxFrame, s.duration)
       THEN autoAdjustTimelineDuration(newState)
       ELSE newState

StoreTrimTextOverlay ==
  \E id \in IdArgs, r \in TrimArgs :
    /\ calls < MaxCalls
    /\ Commit(StoreTrimTextOverlayResult(State, id, r[1], r[2]))
    /\ Called("trimTextOverlay", id, r[1], r[2])
    /\ UNCHANGED nextId

StoreReorderClips ==
  \E from \in IndexArgs, to \in IndexArgs :
    /\ calls < MaxCalls
    /\ Len(reorderClips(State, from, to).media) <= MaxClips
    /\ Commit(reorderClips(State, from, to))
    /\ Called("reorderClips", Undefined, from, to)
    /\ UNCHANGED nextId

\* reorderClips called with both indices inside 0..N-1
StoreReorderClipsInRange ==
  \E from \in 0..(Len(media) - 1), to \in 0..(Len(media) - 1) :
    /\ calls < MaxCalls
    /\ Commit(reorderClips(State, from, to))
    /\ Called("reorderClips", Undefined, from, to)
    /\ UNCHANGED nextId

StoreSetPlayheadResult(s, frame) ==
  [s EXCEPT !.playhead = MathMax(0, MathMin(frame, s.duration))]

StoreSetPlayhead ==
  \E frame \in SeekArgs :
    /\ calls < MaxCalls
    /\ Commit(StoreSetPlayheadResult(State, frame))
    /\ Called("setPlayhead", Undefined, frame, Undefined)
    /\ UNCHANGED nextId

StoreSeekTo ==
  \E frame \in SeekArgs :
    /\ calls < MaxCalls
    /\ Commit([State EXCEPT
                 !.playhead = MathMax(0, MathMin(frame, duration)),
                 !.isPlaying = FALSE])
    /\ Called("seekTo", Undefined, frame, Undefined)
    /\ UNCHANGED nextId

StoreTogglePlayback ==
  /\ calls < MaxCalls
  /\ Commit(togglePlayback(State))
  /\ Called("togglePlayback", Undefined, Undefined, Undefined)
  /\ UNCHANGED nextId

StoreSetZoom ==
  \E z \in ZoomArgs :
    /\ calls < MaxCalls
    /\ Commit(setZoom(State, z))
    /\ Called("setZoom", Undefined, z, Undefined)
    /\ UNCHANGED nextId

StoreSelectItem ==
  \E id \in IdArgs \cup {Null} :
    /\ calls < MaxCalls
    /\ Commit(selectItem(State, id))
    /\ Called("selectItem", id, Undefined, Undefined)
    /\ UNCHANGED nextId

UpdatedItems(items, id, updates) ==
  [i \in 1..Len(items) |->
     IF Get(items[i], "id") = id THEN Spread(items[i], updates) ELSE items[i]]

StoreUpdateClipResult(s, id, updates) ==
  LET updated == [s EXCEPT !.media = UpdatedItems(s.media, id, updates)]
  IN IF Truthy(Get(updates, "endFrame"))
          /\ Gt(Get(updates, "endFrame"), updated.duration)
       THEN autoAdjustTimelineDuration(updated)
       ELSE updated

StoreUpdateClip ==
  \E id \in IdArgs, u \in UpdateArgs :
    /\ calls < MaxCalls
    /\ Commit(StoreUpdateClipResult(State, id, u))
    /\ Called("updateClip", id, Get(u, "startFrame"), Get(u, "endFrame"))
    /\ UNCHANGED nextId

StoreUpdateTextOverlayResult(s, id, updates) ==
  LET updated == [s EXCEPT !.texts = UpdatedItems(s.texts, id, updates)]
  IN IF Truthy(Get(updates, "endFrame"))
          /\ Gt(Get(updates, "endFrame"), updated.duration)
       THEN autoAdjustTimelineDuration(updated)
       ELSE updated

StoreUpdateTextOverlay ==
  \E id \in IdArgs, u \in UpdateArgs :
    /\ calls < MaxCalls
    /\ Commit(StoreUpdateTextOverlayResult(State, id, u))
    /\ Called("updateTextOverlay", id, Get(u, "startFrame"), Get(u, "endFrame"))
    /\ UNCHANGED nextId

StoreSetDuration ==
  \E d \in DurationArgs :
    /\ calls < MaxCalls
    /\ Commit([State EXCEPT !.duration = MathMax(0, d)])
    /\ Called("setDuration", Undefined, d, Undefined)
    /\ UNCHANGED nextId

StoreSetFrameRate ==
  \E f \in FrameRateArgs :
    /\ calls < MaxCalls
    /\ Commit([State EXCEPT !.frameRate = MathMax(1, f)])
    /\ Called("setFrameRate", Undefined, f, Undefined)
    /\ UNCHANGED nextId

StoreExtendTimelineResult(s, additionalSeconds) ==
  LET additionalFrames == Times(additionalSeconds, s.frameRate)
  IN [s EXCEPT !.duration = Plus(s.duration, additionalFrames)]

StoreExtendTimeline ==
  \E sec \in SecondsArgs :
    /\ calls < MaxCalls
    /\ Commit(StoreExtendTimelineResult(State, sec))
    /\ Called("extendTimeline", Undefined, sec, Undefined)
    /\ UNCHANGED nextId

StoreShrinkTimelineResult(s, secondsToRemove) ==
  LET framesToRemove == Times(secondsToRemove, s.frameRate)
      minDuration == getMinimumTimelineDuration(s)
      newDuration == MathMax(Minus(s.duration, framesToRemove), minDuration)
  IN [s EXCEPT !.duration = newDuration]

StoreShrinkTimeline ==
  \E sec \in SecondsArgs :
    /\ calls < MaxCalls
    /\ Commit(StoreShrinkTimelineResult(State, sec))
    /\ Called("shrinkTimeline", Undefined, sec, Undefined)
    /\ UNCHANGED nextId

StoreFitTimelineToContent ==
  /\ calls < MaxCalls
  /\ Commit(fitTimelineToContent(State))
  /\ Called("fitTimelineToContent", Undefined, Undefined, Undefined)
  /\ UNCHANGED nextId

StoreAutoAdjustTimeline ==
  /\ calls < MaxCalls
  /\ Commit(autoAdjustTimelineDuration(State))
  /\ Called("autoAdjustTimeline", Undefined, Undefined, Undefined)
  /\ UNCHANGED nextId

\* volumes in tenths: the clamp to [0, 1] is a clamp to [0, 10]
StoreSetMasterVolume ==
  \E v \in VolumeArgs :
    /\ calls < MaxCalls
    /\ Commit([State EXCEPT !.masterVolume = MathMax(0, MathMin(10, v))])
    /\ Called("setMasterVolume", Undefined, v, Undefined)
    /\ UNCHANGED nextId

StoreToggleMute ==
  /\ calls < MaxCalls
  /\ Commit([State EXCEPT !.muted = ~muted])
  /\ Called("toggleMute", Undefined, Undefined, Undefined)
  /\ UNCHANGED nextId

\* media.find: the first clip with the id, if any
FindIndex(items, id) ==
  IF \E i \in 1..Len(items) : Get(items[i], "id") = id
    THEN CHOOSE i \in 1..Len(items) :
           /\ Get(items[i], "id") = id
           /\ \A j \in 1..(i - 1) : Get(items[j], "id") # id
    ELSE 0

StoreSetClipVolumeResult(s, clipId, volume) ==
  LET i == FindIndex(s.media, clipId)
  IN IF i # 0
       THEN [s EXCEPT !.media[i] =
               Spread(s.media[i], [volume |-> MathMax(0, MathMin(10, volume))])]
       ELSE s

StoreSetClipVolume ==
  \E id \in IdArgs, v \in VolumeArgs :
    /\ calls < MaxCalls
    /\ Commit(StoreSetClipVolumeResult(State, id, v))
    /\ Called("setClipVolume", id, v, Undefined)
    /\ UNCHANGED nextId

\* !clip.muted: an absent muted field is falsy
StoreToggleClipMuteResult(s, clipId) ==
  LET i == FindIndex(s.media, clipId)
      wasMuted == IF "muted" \in DOMAIN s.media[i] THEN s.media[i].muted
                  ELSE FALSE
  IN IF i # 0
       THEN [s EXCEPT !.media[i] = Spread(s.media[i], [muted |-> ~wasMuted])]
       ELSE s

StoreToggleClipMute ==
  \E id \in IdArgs :
    /\ calls < MaxCalls
    /\ Commit(StoreToggleClipMuteResult(State, id))
    /\ Called("toggleClipMute", id, Undefined, Undefined)
    /\ UNCHANGED nextId

\* a reset that puts back every default but keeps the selection
StoreResetStateResultKeepingSelection(s) ==
  [DEFAULT_EDITOR_STATE EXCEPT !.selectedId = s.selectedId]

\* a reset that puts back every default but keeps the clip list
StoreResetStateResultKeepingClips(s) ==
  [DEFAULT_EDITOR_STATE EXCEPT !.media = s.media]

\* set(() => ({ ...DEFAULT_EDITOR_STATE })): the returned object is merged
\* over the store state, and it carries every EditorState field
StoreResetStateResult(s) == Spread(s, DEFAULT_EDITOR_STATE)

StoreResetState ==
  /\ calls < MaxCalls
  /\ Commit(StoreResetStateResult(State))
  /\ Called("resetState", Undefined, Undefined, Undefined)
  /\ UNCHANGED nextId

StorePlay ==
  /\ calls < MaxCalls
  /\ Commit([State EXCEPT !.isPlaying = TRUE])
  /\ Called("play", Undefined, Undefined, Undefined)
  /\ UNCHANGED nextId

StorePauseResult(s) == [s EXCEPT !.isPlaying = FALSE]

StorePause ==
  /\ calls < MaxCalls
  /\ Commit(StorePauseResult(State))
  /\ Called("pause", Undefined, Undefined, Undefined)
  /\ UNCHANGED nextId

\* a stop that leaves the playhead where it was
StoreStopResultKeepingPlayhead(s) == [s EXCEPT !.isPlaying = FALSE]

StoreStopResult(s) == [s EXCEPT !.isPlaying = FALSE, !.playhead = 0]

StoreStop ==
  /\ calls < MaxCalls
  /\ Commit(StoreStopResult(State))
  /\ Called("stop", Undefined, Undefined, Undefined)
  /\ UNCHANGED nextId

\* getSelectedItem: the return value as a list, <<>> for null and <<item>>
\* for an item; a null selectedId is falsy, the clips are searched first
getSelectedItem(s) ==
  IF ~Truthy(s.selectedId) THEN <<>>
  ELSE IF FindIndex(s.media, s.selectedId) # 0
    THEN <<s.media[FindIndex(s.media, s.selectedId)]>>
  ELSE IF FindIndex(s.texts, s.selectedId) # 0
    THEN <<s.texts[FindIndex(s.texts, s.selectedId)]>>
  ELSE <<>>

Init ==
  /\ media = DEFAULT_EDITOR_STATE.media
  /\ texts = DEFAULT_EDITOR_STATE.texts
  /\ selectedId = DEFAULT_EDITOR_STATE.selectedId
  /\ playhead = DEFAULT_EDITOR_STATE.playhead
  /\ frameRate = DEFAULT_EDITOR_STATE.frameRate
  /\ duration = DEFAULT_EDITOR_STATE.duration
  /\ isPlaying = DEFAULT_EDITOR_STATE.isPlaying
  /\ masterVolume = DEFAULT_EDITOR_STATE.masterVolume
  /\ muted = DEFAULT_EDITOR_STATE.muted
  /\ zoom = DEFAULT_EDITOR_STATE.zoom
  /\ scrollPosition = DEFAULT_EDITOR_STATE.scrollPosition
  /\ nextId = 1
  /\ calls = 0
  /\ last = [op |-> "create", id |-> Undefined, a |-> Undefined, b |-> Undefined]
  /\ pre = DEFAULT_EDITOR_STATE
  /\ returned = Undefined
  /\ playerFrame = playhead
  /\ playerParity = FALSE
  /\ previewIsPlaying = FALSE
  /\ seekHeld = FALSE

Next ==
  \/ StoreAddClip
  \/ StoreAddTextOverlay
  \/ StoreRemoveItem
  \/ StoreTrimClip
  \/ StoreTrimTextOverlay
  \/ StoreReorderClips
  \/ StoreSetPlayhead
  \/ StoreSeekTo
  \/ StoreTogglePlayback
  \/ StoreSetZoom
  \/ StoreSelectItem
  \/ StoreUpdateClip
  \/ StoreUpdateTextOverlay
  \/ StoreSetDuration
  \/ StoreSetFrameRate
  \/ StoreExtendTimeline
  \/ StoreShrinkTimeline
  \/ StoreFitTimelineToContent
  \/ StoreAutoAdjustTimeline
  \/ StoreSetMasterVolume
  \/ StoreToggleMute
  \/ StoreSetClipVolume
  \/ StoreToggleClipMute
  \/ StoreResetState
  \/ StorePlay
  \/ StorePause
  \/ StoreStop

Spec == Init /\ [][Next]_vars

\* the editing operations alone: inserts, removal, trims, reorder
NextEdit ==
  \/ StoreAddClip
  \/ StoreAddTextOverlay
  \/ StoreRemoveItem
  \/ StoreTrimClip
  \/ StoreTrimTextOverlay
  \/ StoreReorderClips

SpecEdit == Init /\ [][NextEdit]_vars

\* clip insertion, removal, trim and reorder with indices inside 0..N-1
NextOrder ==
  \/ StoreAddClip
  \/ StoreRemoveItem
  \/ StoreTrimClip
  \/ StoreReorderClipsInRange

SpecOrder == Init /\ [][NextOrder]_vars

\* selectItem called with null or with the id of a clip or overlay in the store
StoreSelectItemExisting ==
  \E id \in {Null} \cup {media[i].id : i \in 1..Len(media)}
              \cup {texts[j].id : j \in 1..Len(texts)} :
    /\ calls < MaxCalls
    /\ Commit(selectItem(State, id))
    /\ Called("selectItem", id, Undefined, Undefined)
    /\ UNCHANGED nextId

\* the editing operations with in-range reorder, reset, and selection of
\* existing items
NextSelect ==
  \/ StoreAddClip
  \/ StoreAddTextOverlay
  \/ StoreRemoveItem
  \/ StoreTrimClip
  \/ StoreTrimTextOverlay
  \/ StoreReorderClipsInRange
  \/ StoreResetState
  \/ StoreSelectItemExisting

SpecSelect == Init /\ [][NextSelect]_vars

---------------------------------------------------------------------------
(* components/Preview.tsx: the player, the effects that drive it and the    *)
(* interval that copies its frame into the store.  The player is the        *)
(* Remotion Player, an outside library: seekTo stores the frame, play lets   *)
(* the frame advance, pause holds it, getCurrentFrame reads it.              *)

MathAbs(a) == IF a = NaN THEN NaN ELSE IF a < 0 THEN 0 - a ELSE a

\* the difference, in frames, above which the interval copies the frame
SyncThreshold == 2

\* the frame that stands for itself and every later frame: it lies more than
\* the threshold beyond every playhead and duration of ClockSpec, so the
\* callback treats all of them alike
ClockHorizon == DefaultDuration + 3

\* frames the running player moves on to: within the threshold of frame 0,
\* beyond it, at the default duration, past it
ClockFrames == {1, 4, 7, DefaultDuration, ClockHorizon}

\* an interval callback that copies every differing frame
updateFromPlayerEveryFrame(s, currentFrame) ==
  LET synced == IF /\ currentFrame # Undefined
                   /\ s.isPlaying
                   /\ Gt(MathAbs(Minus(currentFrame, s.playhead)), 0)
                  THEN StoreSetPlayheadResult(s, currentFrame)
                  ELSE s
  IN  IF Ge(currentFrame, s.duration) THEN StorePauseResult(synced) ELSE synced

\* an interval callback that does not ask the store whether it is playing
updateFromPlayerWhileIdle(s, currentFrame) ==
  LET synced == IF /\ currentFrame # Undefined
                   /\ Gt(MathAbs(Minus(currentFrame, s.playhead)), SyncThreshold)
                  THEN StoreSetPlayheadResult(s, currentFrame)
                  ELSE s
  IN  IF Ge(currentFrame, s.duration) THEN StorePauseResult(synced) ELSE synced

\* updateFromPlayer, the interval callback (its closure holds isPlaying =
\* true): s is currentState, read before setPlayhead and pause are called
updateFromPlayer(s, currentFrame) ==
  LET synced == IF /\ currentFrame # Undefined
                   /\ s.isPlaying
                   /\ Gt(MathAbs(Minus(currentFrame, s.playhead)), SyncThreshold)
                  THEN StoreSetPlayheadResult(s, currentFrame)
                  ELSE s
  IN  IF Ge(currentFrame, s.duration) THEN StorePauseResult(synced) ELSE synced

\* the interval fires: it exists from the render that saw isPlaying = true
\* until the render that sees isPlaying = false clears it
PreviewTick ==
  /\ previewIsPlaying
  /\ Commit(updateFromPlayer(State, playerFrame))
  /\ last' = [op |-> "tick", id |-> Undefined, a |-> playerFrame,
              b |-> Undefined]
  /\ pre' = State
  /\ returned' = Undefined
  /\ UNCHANGED <<nextId, calls, playerFrame, playerParity, previewIsPlaying,
                 seekHeld>>

\* the component renders after a store change and its effects run: a paused
\* store seeks the player to the playhead and pauses it (and the cleanup
\* clears the interval); a store that started playing seeks the player to
\* the playhead, plays it and installs the interval
PreviewRender ==
  /\ \/ previewIsPlaying # isPlaying
     \/ ~isPlaying /\ playerFrame # playhead
  /\ previewIsPlaying' = isPlaying
  /\ playerFrame' = playhead
  /\ playerParity' = FALSE
  /\ UNCHANGED <<media, texts, selectedId, playhead, frameRate, duration,
                 isPlaying, masterVolume, muted, zoom, scrollPosition,
                 nextId, calls, last, pre, returned, seekHeld>>

\* the playing player moves on to a later frame; beyond the horizon only the
\* parity of its frame is kept
PlayerAdvance ==
  /\ previewIsPlaying
  /\ \/ \E f \in ClockFrames :
          /\ Gt(f, playerFrame)
          /\ playerFrame' = f
          /\ UNCHANGED playerParity
     \/ /\ playerFrame = ClockHorizon
        /\ playerParity' = ~playerParity
        /\ UNCHANGED playerFrame
  /\ UNCHANGED <<media, texts, selectedId, playhead, frameRate, duration,
                 isPlaying, masterVolume, muted, zoom, scrollPosition,
                 nextId, calls, last, pre, returned, previewIsPlaying,
                 seekHeld>>

\* the transport and the operations that set the duration, with the clock
ClockNext ==
  \/ StorePlay
  \/ StorePause
  \/ StoreStop
  \/ StoreTogglePlayback
  \/ StoreSeekTo
  \/ StoreSetPlayhead
  \/ StoreSetDuration
  \/ StoreReorderClips
  \/ StoreAutoAdjustTimeline
  \/ PreviewRender
  \/ PlayerAdvance
  \/ PreviewTick

ClockSpec == Init /\ [][ClockNext]_vars

\* React runs the effects after every store change, the interval fires every
\* 100 ms while it is installed, the playing player keeps advancing
ClockFairSpec ==
  /\ ClockSpec
  /\ WF_vars(PreviewRender)
  /\ WF_vars(PlayerAdvance)
  /\ WF_vars(PreviewTick)

---------------------------------------------------------------------------
(* The pure functions of lib/timelineOps.ts applied once to an arbitrary     *)
(* well-typed EditorState: every clip and overlay carries its id and range,  *)
(* ids are unique, the order fields are 0..N-1.                              *)

PureRanges == {<<0, 4>>, <<0, 100>>, <<50, 250>>}
PureTextRanges == {<<0, 100>>, <<200, 300>>}
PureDurations == {0, 200}
PureFrameRates == {1, DefaultFrameRate}
\* frames given to trim and setPlayhead
PureFrameArgs == {0 - 2, 0, 3}
PureSeekArgs == {0 - 2, 0, 3, 1000}
PureIndexArgs == (0 - 1)..PureMaxClips
\* clip i has id i, overlay j has id PureMaxClips + j, one id matches nothing
MissingId == PureMaxClips + PureMaxTexts + 1
PureIdArgs == 1..MissingId

RangeLists(ranges, maxLen) == UNION {[1..n -> ranges] : n \in 0..maxLen}

MakeClips(rs) ==
  [i \in 1..Len(rs) |->
     [id |-> i, startFrame |-> rs[i][1], endFrame |-> rs[i][2], order |-> i - 1]]

MakeTexts(rs) ==
  [j \in 1..Len(rs) |->
     [id |-> PureMaxClips + j, startFrame |-> rs[j][1], endFrame |-> rs[j][2]]]

PureInit ==
  /\ \E rs \in RangeLists(PureRanges, PureMaxClips) : media = MakeClips(rs)
  /\ \E rs \in RangeLists(PureTextRanges, PureMaxTexts) : texts = MakeTexts(rs)
  /\ selectedId \in {Null, 1, MissingId}
  /\ duration \in PureDurations
  /\ playhead \in {0, duration}
  /\ frameRate \in PureFrameRates
  /\ isPlaying \in BOOLEAN
  /\ masterVolume = DEFAULT_EDITOR_STATE.masterVolume
  /\ muted = DEFAULT_EDITOR_STATE.muted
  /\ zoom = DEFAULT_EDITOR_STATE.zoom
  /\ scrollPosition = DEFAULT_EDITOR_STATE.scrollPosition
  /\ nextId = MissingId + 1
  /\ calls = 0
  /\ last = [op |-> "create", id |-> Undefined, a |-> Undefined, b |-> Undefined]
  /\ pre = State
  /\ returned = Undefined
  /\ playerFrame = playhead
  /\ playerParity = FALSE
  /\ previewIsPlaying = FALSE
  /\ seekHeld = FALSE

\* the function's return value becomes the state under observation
Return(new) ==
  \E s \in {new} :
    /\ media' = s.media
    /\ texts' = s.texts
    /\ selectedId' = s.selectedId
    /\ playhead' = s.playhead
    /\ frameRate' = s.frameRate
    /\ duration' = s.duration
    /\ isPlaying' = s.isPlaying
    /\ masterVolume' = s.masterVolume
    /\ muted' = s.muted
    /\ zoom' = s.zoom
    /\ scrollPosition' = s.scrollPosition

PureAddClip ==
  \E r \in PureRanges :
    /\ calls = 0
    /\ Return(addClip(State, ItemData(r), nextId))
    /\ nextId' = nextId + 1
    /\ Called("addClip", nextId, r[1], r[2])

PureAddTextOverlay ==
  \E r \in PureTextRanges :
    /\ calls = 0
    /\ Return(addTextOverlay(State, ItemData(r), nextId))
    /\ nextId' = nextId + 1
    /\ Called("addTextOverlay", nextId, r[1], r[2])

PureRemoveItem ==
  \E id \in PureIdArgs :
    /\ calls = 0
    /\ Return(removeItem(State, id))
    /\ Called("removeItem", id, Undefined, Undefined)
    /\ UNCHANGED nextId

PureTrimClip ==
  \E id \in PureIdArgs, a \in PureFrameArgs, b \in PureFrameArgs :
    /\ calls = 0
    /\ Return(trimClip(State, id, a, b))
    /\ Called("trimClip", id, a, b)
    /\ UNCHANGED nextId

PureTrimTextOverlay ==
  \E id \in PureIdArgs, a \in PureFrameArgs, b \in PureFrameArgs :
    /\ calls = 0
    /\ Return(trimTextOverlay(State, id, a, b))
    /\ Called("trimTextOverlay", id, a, b)
    /\ UNCHANGED nextId

PureReorderClips ==
  \E from \in PureIndexArgs, to \in PureIndexArgs :
    /\ calls = 0
    /\ Return(reorderClips(State, from, to))
    /\ Called("reorderClips", Undefined, from, to)
    /\ UNCHANGED nextId

PureSetPlayhead ==
  \E frame \in PureSeekArgs :
    /\ calls = 0
    /\ Return(setPlayhead(State, frame))
    /\ Called("setPlayhead", Undefined, frame, Undefined)
    /\ UNCHANGED nextId

PureTogglePlayback ==
  /\ calls = 0
  /\ Return(togglePlayback(State))
  /\ Called("togglePlayback", Undefined, Undefined, Undefined)
  /\ UNCHANGED nextId

PureSetZoom ==
  \E z \in ZoomArgs :
    /\ calls = 0
    /\ Return(setZoom(State, z))
    /\ Called("setZoom", Undefined, z, Undefined)
    /\ UNCHANGED nextId

PureSelectItem ==
  \E id \in PureIdArgs \cup {Null} :
    /\ calls = 0
    /\ Return(selectItem(State, id))
    /\ Called("selectItem", id, Undefined, Undefined)
    /\ UNCHANGED nextId

PureAutoAdjustTimelineDuration ==
  /\ calls = 0
  /\ Return(autoAdjustTimelineDuration(State))
  /\ Called("autoAdjustTimelineDuration", Undefined, Undefined, Undefined)
  /\ UNCHANGED nextId

PureFitTimelineToContent ==
  /\ calls = 0
  /\ Return(fitTimelineToContent(State))
  /\ Called("fitTimelineToContent", Undefined, Undefined, Undefined)
  /\ UNCHANGED nextId

PureNext ==
  \/ PureAddClip
  \/ PureAddTextOverlay
  \/ PureRemoveItem
  \/ PureTrimClip
  \/ PureTrimTextOverlay
  \/ PureReorderClips
  \/ PureSetPlayhead
  \/ PureTogglePlayback
  \/ PureSetZoom
  \/ PureSelectItem
  \/ PureAutoAdjustTimelineDuration
  \/ PureFitTimelineToContent

PureSpec == PureInit /\ [][PureNext]_vars

---------------------------------------------------------------------------
(* reorderClips applied once to a state with up to ReorderMaxClips clips     *)

ReorderRanges == {<<0, 100>>, <<50, 250>>}
ReorderIndexArgs == (0 - 1)..ReorderMaxClips

\* zero or one overlay, its id distinct from every clip id
ReorderTexts ==
  {<<>>, <<[id |-> ReorderMaxClips + 1, startFrame |-> 0, endFrame |-> 100]>>}

ReorderInit ==
  /\ \E rs \in RangeLists(ReorderRanges, ReorderMaxClips) : media = MakeClips(rs)
  /\ texts \in ReorderTexts
  /\ selectedId \in {Null, 1}
  /\ duration = DEFAULT_EDITOR_STATE.duration
  /\ playhead = DEFAULT_EDITOR_STATE.playhead
  /\ frameRate = DEFAULT_EDITOR_STATE.frameRate
  /\ isPlaying = DEFAULT_EDITOR_STATE.isPlaying
  /\ masterVolume = DEFAULT_EDITOR_STATE.masterVolume
  /\ muted = DEFAULT_EDITOR_STATE.muted
  /\ zoom = DEFAULT_EDITOR_STATE.zoom
  /\ scrollPosition = DEFAULT_EDITOR_STATE.scrollPosition
  /\ nextId = ReorderMaxClips + 2
  /\ calls = 0
  /\ last = [op |-> "create", id |-> Undefined, a |-> Undefined, b |-> Undefined]
  /\ pre = State
  /\ returned = Undefined
  /\ playerFrame = playhead
  /\ playerParity = FALSE
  /\ previewIsPlaying = FALSE
  /\ seekHeld = FALSE

ReorderClipsCall ==
  \E from \in ReorderIndexArgs, to \in ReorderIndexArgs :
    /\ calls = 0
    /\ Return(reorderClips(State, from, to))
    /\ Called("reorderClips", Undefined, from, to)
    /\ UNCHANGED nextId

ReorderSpec == ReorderInit /\ [][ReorderClipsCall]_vars

---------------------------------------------------------------------------
(* The queries of lib/timelineOps.ts applied once to a state whose clips and *)
(* overlays carry any integer range: valid, empty, touching, overlapping,    *)
(* with a negative start, with a negative end.                               *)

QueryRanges == {<<0, 60>>, <<50, 100>>, <<60, 90>>, <<5, 5>>, <<0 - 2, 3>>,
                <<0 - 5, 0 - 1>>, <<0 - 2, 100>>}
QueryTextRanges == {<<0, 60>>, <<50, 100>>}
\* frames asked for: before every item, at a start, inside, at the last frame
\* of an item, at an end, past every item
QueryFrames == {0 - 2, 0, 5, 59, 60, 100}

QueryClips(rs) ==
  [i \in 1..Len(rs) |->
     [id |-> i, order |-> i - 1, startFrame |-> rs[i][1], endFrame |-> rs[i][2]]]

QueryTexts(rs) ==
  [j \in 1..Len(rs) |->
     [id |-> QueryMaxClips + j, startFrame |-> rs[j][1], endFrame |-> rs[j][2]]]

QueryInit ==
  /\ \E rs \in RangeLists(QueryRanges, QueryMaxClips) : media = QueryClips(rs)
  /\ \E rs \in RangeLists(QueryTextRanges, QueryMaxTexts) : texts = QueryTexts(rs)
  /\ selectedId = DEFAULT_EDITOR_STATE.selectedId
  /\ duration = DEFAULT_EDITOR_STATE.duration
  /\ playhead = DEFAULT_EDITOR_STATE.playhead
  /\ frameRate = DEFAULT_EDITOR_STATE.frameRate
  /\ isPlaying = DEFAULT_EDITOR_STATE.isPlaying
  /\ masterVolume = DEFAULT_EDITOR_STATE.masterVolume
  /\ muted = DEFAULT_EDITOR_STATE.muted
  /\ zoom = DEFAULT_EDITOR_STATE.zoom
  /\ scrollPosition = DEFAULT_EDITOR_STATE.scrollPosition
  /\ nextId = QueryMaxClips + QueryMaxTexts + 1
  /\ calls = 0
  /\ last = [op |-> "create", id |-> Undefined, a |-> Undefined, b |-> Undefined]
  /\ pre = State
  /\ returned = Undefined
  /\ playerFrame = playhead
  /\ playerParity = FALSE
  /\ previewIsPlaying = FALSE
  /\ seekHeld = FALSE

\* a query: the state is left alone and the value it returns is recorded
Queried(op, a, value) ==
  /\ calls' = calls + 1
  /\ last' = [op |-> op, id |-> Undefined, a |-> a, b |-> Undefined]
  /\ pre' = State
  /\ returned' = value
  /\ UNCHANGED <<media, texts, selectedId, playhead, frameRate, duration,
                 isPlaying, masterVolume, muted, zoom, scrollPosition, nextId,
                 playerFrame, playerParity, previewIsPlaying, seekHeld>>

QueryValidateTimelineState ==
  /\ calls = 0
  /\ Queried("validateTimelineState", Undefined, validateTimelineState(State))

QueryGetItemsAtFrame ==
  \E frame \in QueryFrames :
    /\ calls = 0
    /\ Queried("getItemsAtFrame", frame, getItemsAtFrame(State, frame))

QueryCalculateTimelineDuration ==
  /\ calls = 0
  /\ Queried("calculateTimelineDuration", Undefined,
             calculateTimelineDuration(State))

QueryGetMinimumTimelineDuration ==
  /\ calls = 0
  /\ Queried("getMinimumTimelineDuration", Undefined,
             getMinimumTimelineDuration(State))

QueryNext ==
  \/ QueryValidateTimelineState
  \/ QueryGetItemsAtFrame
  \/ QueryCalculateTimelineDuration
  \/ QueryGetMinimumTimelineDuration

QuerySpec == QueryInit /\ [][QueryNext]_vars

---------------------------------------------------------------------------
(* Properties *)

Max2(a, b) == IF a >= b THEN a ELSE b

\* the end frames present in a state (an entry without endFrame has none)
EndFrames(s) ==
  {s.media[i].endFrame : i \in {k \in 1..Len(s.media) : "endFrame" \in DOMAIN s.media[k]}}
    \cup {s.texts[j].endFrame : j \in {k \in 1..Len(s.texts) : "endFrame" \in DOMAIN s.texts[k]}}

\* content extent: the largest end frame over clips and overlays, 0 when empty
ContentExtent(s) ==
  CHOOSE m \in EndFrames(s) \cup {0} : \A x \in EndFrames(s) \cup {0} : x <= m

HasRange(item) == {"startFrame", "endFrame"} \subseteq DOMAIN item

\* the positions of the list at which the item with the given id sits
IndexOf(items, id) == {i \in 1..Len(items) : Get(items[i], "id") = id}

\* C1: in every reachable store state 0 <= playhead <= duration (stated of the
\* states whose playhead and duration are numbers).
C1_PlayheadWithinDuration ==
  (playhead # NaN /\ duration # NaN) =>
    (0 <= playhead /\ playhead <= duration)

\* C2: fitTimelineToContent applied to a state with 0 <= playhead <= duration
\* leaves playhead <= the new duration (stated of the calls that return a
\* numeric duration).
C2_FitReclampsPlayhead ==
  (/\ last.op = "fitTimelineToContent"
   /\ Le(0, pre.playhead)
   /\ Le(pre.playhead, pre.duration)
   /\ duration # NaN)
    => playhead <= duration

\* C3: trimClip and trimTextOverlay on an existing item give it
\* startFrame = max(0, newStart) and endFrame = max(startFrame + 1, newEnd),
\* the floor being taken from the clamped start.
C3_TrimFloorFromClampedStart ==
  /\ last.op = "trimClip" =>
       \A i \in IndexOf(pre.media, last.id) :
         /\ media[i].startFrame = Max2(0, last.a)
         /\ media[i].endFrame = Max2(Max2(0, last.a) + 1, last.b)
  /\ last.op = "trimTextOverlay" =>
       \A j \in IndexOf(pre.texts, last.id) :
         /\ texts[j].startFrame = Max2(0, last.a)
         /\ texts[j].endFrame = Max2(Max2(0, last.a) + 1, last.b)

\* C4: trimClip on an existing clip with 0 <= start < end leaves exactly
\* [start, end); with start >= 0 and end <= start it leaves [start, start + 1).
C4_TrimExactOrOneFrame ==
  (last.op = "trimClip" /\ last.a >= 0) =>
     \A i \in IndexOf(pre.media, last.id) :
       /\ media[i].startFrame = last.a
       /\ last.a < last.b => media[i].endFrame = last.b
       /\ last.b <= last.a => media[i].endFrame = last.a + 1

\* a trim with end <= start acted on an existing clip and left one frame
C4_Witness ==
  /\ last.op = "trimClip"
  /\ last.a = 3
  /\ last.b = 0
  /\ \E i \in IndexOf(pre.media, last.id) :
       /\ pre.media[i].endFrame # 4
       /\ media[i].startFrame = 3
       /\ media[i].endFrame = 4

\* C5: with every insert supplying 0 <= startFrame < endFrame, every clip and
\* overlay reachable through inserts, removal, trims and reorder has
\* startFrame >= 0 and endFrame > startFrame (stated of the entries that carry
\* a frame range).
C5_FrameRangeInvariant ==
  /\ \A i \in 1..Len(media) :
       HasRange(media[i]) =>
         (media[i].startFrame >= 0 /\ media[i].endFrame > media[i].startFrame)
  /\ \A j \in 1..Len(texts) :
       HasRange(texts[j]) =>
         (texts[j].startFrame >= 0 /\ texts[j].endFrame > texts[j].startFrame)

\* C6: when a store trim or update of an existing item leaves that item's
\* endFrame above the duration held before the call, the resulting duration is
\* at least the resulting content extent.
C6_AutoExtension ==
  /\ (/\ last.op \in {"trimClip", "updateClip"}
      /\ \E i \in IndexOf(pre.media, last.id) :
           Gt(Get(media[i], "endFrame"), pre.duration))
       => Ge(duration, ContentExtent(State))
  /\ (/\ last.op \in {"trimTextOverlay", "updateTextOverlay"}
      /\ \E j \in IndexOf(pre.texts, last.id) :
           Gt(Get(texts[j], "endFrame"), pre.duration))
       => Ge(duration, ContentExtent(State))

\* C7: autoAdjustTimelineDuration returns
\* duration' = max(max(contentExtent + 2*frameRate, 10*frameRate), duration),
\* never below the previous duration, and changes no other field.
C7_AutoAdjustRatchet ==
  last.op = "autoAdjustTimelineDuration" =>
    /\ duration = Max2(Max2(ContentExtent(pre) + 2 * pre.frameRate,
                            10 * pre.frameRate), pre.duration)
    /\ duration >= pre.duration
    /\ State = [pre EXCEPT !.duration = duration]

\* auto-adjust grew the timeline to content plus the two-second buffer
C7_Witness ==
  /\ last.op = "autoAdjustTimelineDuration"
  /\ duration > pre.duration
  /\ duration = ContentExtent(pre) + 2 * pre.frameRate
  /\ duration > 10 * pre.frameRate

C8_LoweringOps == {"fitTimelineToContent", "shrinkTimeline", "setDuration",
                   "extendTimeline", "resetState"}

\* C8: the duration never decreases across a store call, except across
\* fitTimelineToContent, shrinkTimeline, setDuration, resetState and
\* extendTimeline with a negative argument.
C8_ShrinkingIsManualOnly ==
  Lt(duration, pre.duration) =>
    /\ last.op \in C8_LoweringOps
    /\ last.op = "extendTimeline" => last.a < 0

\* a trim past the end of the timeline has made the store grow the duration
C8_Witness ==
  /\ last.op = "trimClip"
  /\ \E i \in IndexOf(pre.media, last.id) : Gt(media[i].endFrame, pre.duration)
  /\ Gt(duration, pre.duration)

\* C9: the pure removeItem and the store's removeItem both leave the duration
\* as it was, whatever the id matches.
C9_RemoveKeepsDuration ==
  last.op = "removeItem" =>
    /\ removeItem(pre, last.id).duration = pre.duration
    /\ duration = pre.duration

\* the removed item was the one that defined the content extent
C9_Witness ==
  /\ last.op = "removeItem"
  /\ IndexOf(pre.media, last.id) \cup IndexOf(pre.texts, last.id) # {}
  /\ ContentExtent(State) < ContentExtent(pre)
  /\ duration = pre.duration

\* C10: fitTimelineToContent returns duration = max(contentExtent, 5*frameRate)
\* whatever the previous duration, and changes no clip and no overlay.
C10_FitExact ==
  last.op = "fitTimelineToContent" =>
    /\ duration = Max2(ContentExtent(pre), 5 * pre.frameRate)
    /\ media = pre.media
    /\ texts = pre.texts

\* a fit that shrank the timeline to the five-second floor
C10_Witness ==
  /\ last.op = "fitTimelineToContent"
  /\ duration < pre.duration
  /\ duration = 5 * pre.frameRate
  /\ ContentExtent(pre) < duration

\* C11: after the store's shrinkTimeline with a non-negative argument the
\* duration is >= the content extent and equals
\* max(duration - secondsToRemove*frameRate, contentExtent) (stated of the
\* calls made on a numeric duration).
C11_ShrinkContentProtection ==
  (last.op = "shrinkTimeline" /\ last.a >= 0 /\ pre.duration # NaN) =>
    /\ duration >= ContentExtent(State)
    /\ duration = Max2(pre.duration - last.a * pre.frameRate,
                       ContentExtent(pre))

\* the store operations that address one item by id
C12_NotFoundOps == {"trimClip", "trimTextOverlay", "updateClip",
                    "updateTextOverlay", "setClipVolume", "toggleClipMute",
                    "removeItem"}

\* C12: a store call of trimClip, trimTextOverlay, updateClip,
\* updateTextOverlay, setClipVolume, toggleClipMute or removeItem with an id
\* that matches no clip and no overlay leaves every field of the state
\* unchanged, whatever the other arguments (stated of the states whose clips
\* all carry a range).
C12_NotFoundIsNoOp ==
  (/\ last.op \in C12_NotFoundOps
   /\ IndexOf(pre.media, last.id) \cup IndexOf(pre.texts, last.id) = {}
   /\ \A i \in 1..Len(pre.media) : HasRange(pre.media[i])) =>
    State = pre

\* the id matches no clip and no overlay of the state
Unmatched(s, id) == IndexOf(s.media, id) \cup IndexOf(s.texts, id) = {}

\* the clip at list index i has order i (0-based)
DenseOrder(clips) ==
  \A i \in 1..Len(clips) : Get(clips[i], "order") = i - 1

C13_Ops == {"removeItem", "trimClip", "trimTextOverlay"}

\* C13 as stated: on a state with dense order fields and an id that matches no
\* clip and no overlay, removeItem, trimClip and trimTextOverlay return a state
\* equal to the input in every field.
C13_MissingIdIsIdentity ==
  (/\ last.op \in C13_Ops
   /\ DenseOrder(pre.media)
   /\ Unmatched(pre, last.id)) =>
    State = pre

\* C13 amended: on such a state and id, trimClip and trimTextOverlay return a
\* state equal to the input in every field, and removeItem returns the input
\* with selectedId set to null when selectedId was that very id (a dangling
\* selection) and unchanged otherwise.
C13_MissingIdKeepsAllButDanglingSelection ==
  (/\ last.op \in C13_Ops
   /\ DenseOrder(pre.media)
   /\ Unmatched(pre, last.id)) =>
    State = [pre EXCEPT !.selectedId =
               IF last.op = "removeItem" /\ pre.selectedId = last.id
                 THEN Null ELSE pre.selectedId]

\* removeItem of an id that matches nothing, on a state with clips and an
\* overlay whose selection is that id
C13_Witness ==
  /\ last.op = "removeItem"
  /\ Unmatched(pre, last.id)
  /\ Len(pre.media) > 1
  /\ Len(pre.texts) > 0
  /\ pre.selectedId = last.id
  /\ selectedId = Null
  /\ media = pre.media

\* the clips of a list other than the one with the given id, in list order
ClipsWithout(clips, id) == SelectSeq(clips, LAMBDA clip : Get(clip, "id") # id)

\* the two clips agree on every field other than order
SameButOrder(c1, c2) ==
  /\ DOMAIN c1 \ {"order"} = DOMAIN c2 \ {"order"}
  /\ \A f \in DOMAIN c1 \ {"order"} : c1[f] = c2[f]

\* C14: after removeItem the clip list is the input clip list with the clip of
\* that id deleted, the remaining clips in their previous relative order, and
\* the clip at index i has order i.
C14_RemoveRenumbers ==
  last.op = "removeItem" =>
    /\ Len(media) = Len(ClipsWithout(pre.media, last.id))
    /\ \A i \in 1..Len(media) :
         SameButOrder(media[i], ClipsWithout(pre.media, last.id)[i])
    /\ DenseOrder(media)

\* the first of two clips was removed: the other moved from order 1 to order 0
C14_Witness ==
  /\ last.op = "removeItem"
  /\ Len(pre.media) > 1
  /\ pre.media[1].id = last.id
  /\ Len(media) = Len(pre.media) - 1
  /\ media[1].id = pre.media[2].id
  /\ pre.media[2].order = 1
  /\ media[1].order = 0

\* C15: in every state reachable from the empty state by addClip, removeItem,
\* trimClip and reorderClips with indices inside 0..N-1, the clip at list
\* index i has order i.
C15_DenseOrderInvariant == DenseOrder(media)

\* a reorder that moved the first of two clips behind the second
C15_Witness ==
  /\ last.op = "reorderClips"
  /\ last.a = 0
  /\ last.b = 1
  /\ Len(pre.media) = 2
  /\ media[2].id = pre.media[1].id
  /\ pre.media[1].order = 0
  /\ media[2].order = 1

\* the ids of a clip list, in list order
ClipIds(clips) == [i \in 1..Len(clips) |-> Get(clips[i], "id")]

\* C16: reorderClips with 0 <= fromIndex, toIndex < N moves one clip: the clip
\* that was at fromIndex ends at index toIndex, the other clips keep their
\* relative order, the set of clip ids is unchanged and every clip's order is
\* its final index.
C16_ReorderMoves ==
  (/\ last.op = "reorderClips"
   /\ 0 <= last.a /\ last.a < Len(pre.media)
   /\ 0 <= last.b /\ last.b < Len(pre.media)) =>
    /\ Len(media) = Len(pre.media)
    /\ SameButOrder(media[last.b + 1], pre.media[last.a + 1])
    /\ LET moved == Get(pre.media[last.a + 1], "id")
           before == ClipsWithout(pre.media, moved)
           after == ClipsWithout(media, moved)
       IN /\ Len(after) = Len(before)
          /\ \A i \in 1..Len(after) : SameButOrder(after[i], before[i])
    /\ {Get(media[i], "id") : i \in 1..Len(media)}
         = {Get(pre.media[i], "id") : i \in 1..Len(pre.media)}
    /\ DenseOrder(media)

\* the scenario [c1, c2, c3], reorder(0, 2): the result is [c2, c3, c1] with
\* order fields 0, 1, 2
C16_Witness ==
  /\ last.op = "reorderClips"
  /\ last.a = 0
  /\ last.b = 2
  /\ ClipIds(pre.media) = <<1, 2, 3>>
  /\ ClipIds(media) = <<2, 3, 1>>
  /\ [i \in 1..3 |-> media[i].order] = <<0, 1, 2>>

Min2(a, b) == IF a <= b THEN a ELSE b

\* C17: seekTo leaves isPlaying = false whatever it was, the store's
\* setPlayhead leaves isPlaying as it was, and both leave the playhead at the
\* requested frame clamped into [0, duration] (stated of the calls made on a
\* numeric duration).
C17_SeekVersusSync ==
  (last.op \in {"seekTo", "setPlayhead"} /\ pre.duration # NaN) =>
    /\ last.op = "seekTo" => ~isPlaying
    /\ last.op = "setPlayhead" => isPlaying = pre.isPlaying
    /\ playhead = Min2(Max2(last.a, 0), pre.duration)
    /\ 0 <= playhead
    /\ playhead <= duration

\* C18: on a state with duration >= 0 the pure setPlayhead(state, f) returns
\* playhead = min(max(f, 0), duration), which lies in [0, duration], and
\* isPlaying = false.
C18_PureSetPlayheadClamps ==
  (last.op = "setPlayhead" /\ pre.duration >= 0) =>
    /\ playhead = Min2(Max2(last.a, 0), pre.duration)
    /\ 0 <= playhead
    /\ playhead <= duration
    /\ ~isPlaying

\* a frame past the end of a playing timeline: the playhead stops at the
\* duration and the playback stops
C18_Witness ==
  /\ last.op = "setPlayhead"
  /\ pre.isPlaying
  /\ pre.duration > 0
  /\ last.a > pre.duration
  /\ playhead = pre.duration
  /\ ~isPlaying

\* one store call of play, pause or togglePlayback, seen as a step: the
\* unprimed state is the one the call is made on (itself the result of the
\* call recorded in last, made on pre), the primed state is its result
C19_TransportStep ==
  /\ (last'.op = "play") => isPlaying'
  /\ (last'.op = "play" /\ isPlaying) => isPlaying'
  /\ (last'.op = "pause") => ~isPlaying'
  /\ (last'.op = "pause" /\ ~isPlaying) => ~isPlaying'
  /\ (last'.op = "togglePlayback") => (isPlaying' = ~isPlaying)
  /\ (last'.op = "togglePlayback" /\ last.op = "togglePlayback") =>
       (isPlaying' = pre.isPlaying)
  /\ (last'.op \in {"play", "pause", "togglePlayback"}) =>
       /\ playhead' = playhead
       /\ duration' = duration
       /\ media' = media
       /\ texts' = texts
       /\ selectedId' = selectedId

\* C19: play leads to Playing and pause to Idle from either state (so each is
\* idempotent), togglePlayback flips isPlaying and two consecutive toggles
\* restore it, and none of the three changes playhead, duration, clips,
\* overlays or selection.
C19_TransportStateMachine ==
  [][(calls' = calls + 1) => C19_TransportStep]_vars

\* a toggle that stopped a store set playing by an earlier call
C19_Witness ==
  /\ last.op = "togglePlayback"
  /\ calls >= 2
  /\ pre.isPlaying
  /\ ~isPlaying
  /\ playhead = pre.playhead

\* C20: stop leaves isPlaying = false and playhead = 0 and does not change
\* duration, clips, overlays or selection.
C20_StopResets ==
  last.op = "stop" =>
    /\ ~isPlaying
    /\ playhead = 0
    /\ duration = pre.duration
    /\ media = pre.media
    /\ texts = pre.texts
    /\ selectedId = pre.selectedId

\* a stop of a playing store whose playhead was inside the timeline
C20_Witness ==
  /\ last.op = "stop"
  /\ pre.isPlaying
  /\ pre.playhead > 0
  /\ ~isPlaying
  /\ playhead = 0

\* the clips and overlays of a state that carry the given id
ItemsWithId(s, id) ==
  {s.media[i] : i \in IndexOf(s.media, id)}
    \cup {s.texts[j] : j \in IndexOf(s.texts, id)}

\* C21: selectItem(id) stores the id verbatim, existing or not or null, and
\* changes no other field; getSelectedItem then returns the clip or overlay
\* with that id if there is one and null otherwise, selectedId keeping the id.
C21_DanglingSelection ==
  last.op = "selectItem" =>
    /\ State = [pre EXCEPT !.selectedId = last.id]
    /\ ItemsWithId(State, last.id) = {} => getSelectedItem(State) = <<>>
    /\ ItemsWithId(State, last.id) # {} =>
         /\ Len(getSelectedItem(State)) = 1
         /\ getSelectedItem(State)[1] \in ItemsWithId(State, last.id)

\* an id of nothing was selected in a store that holds a clip: the lookup
\* returns null and the id stays
C21_Witness ==
  /\ last.op = "selectItem"
  /\ Len(media) > 0
  /\ last.id # Null
  /\ ItemsWithId(State, last.id) = {}
  /\ selectedId = last.id
  /\ pre.selectedId # last.id
  /\ getSelectedItem(State) = <<>>

\* C22: removeItem deletes the clip or overlay with the id; selectedId becomes
\* null when it was equal to the id and is returned unchanged when it differs,
\* so it changes only in the first case.
C22_RemoveClearsMatchingSelection ==
  last.op = "removeItem" =>
    /\ ItemsWithId(State, last.id) = {}
    /\ Len(media) = Len(pre.media) - Cardinality(IndexOf(pre.media, last.id))
    /\ texts = SelectSeq(pre.texts, LAMBDA text : Get(text, "id") # last.id)
    /\ pre.selectedId = last.id => selectedId = Null
    /\ pre.selectedId # last.id => selectedId = pre.selectedId
    /\ selectedId # pre.selectedId => pre.selectedId = last.id

\* the selected clip was removed and the selection cleared
C22_Witness ==
  /\ last.op = "removeItem"
  /\ pre.selectedId = last.id
  /\ IndexOf(pre.media, last.id) # {}
  /\ Len(media) = Len(pre.media) - 1
  /\ selectedId = Null

\* another item than the selected clip was removed and the selection stayed
C22_WitnessOther ==
  /\ last.op = "removeItem"
  /\ pre.selectedId # Null
  /\ pre.selectedId # last.id
  /\ ItemsWithId(pre, last.id) # {}
  /\ selectedId = pre.selectedId

\* C23: the pure addClip appends one clip at the end of the clip list, with
\* order = the previous clip count and the supplied range, selects it and
\* changes nothing else; addTextOverlay appends one overlay at the end of the
\* overlay list, selects it and changes nothing else.
C23_InsertAppendsAndSelects ==
  /\ last.op = "addClip" =>
       /\ Len(media) = Len(pre.media) + 1
       /\ SubSeq(media, 1, Len(pre.media)) = pre.media
       /\ media[Len(media)] = [id |-> last.id, order |-> Len(pre.media),
                                startFrame |-> last.a, endFrame |-> last.b]
       /\ State = [pre EXCEPT !.media = media, !.selectedId = last.id]
  /\ last.op = "addTextOverlay" =>
       /\ Len(texts) = Len(pre.texts) + 1
       /\ SubSeq(texts, 1, Len(pre.texts)) = pre.texts
       /\ texts[Len(texts)] = [id |-> last.id, startFrame |-> last.a,
                                endFrame |-> last.b]
       /\ State = [pre EXCEPT !.texts = texts, !.selectedId = last.id]

\* a clip was appended behind two clips of a state that had another selection
C23_Witness ==
  /\ last.op = "addClip"
  /\ Len(pre.media) = 2
  /\ pre.selectedId = 1
  /\ Len(media) = 3
  /\ media[3].order = 2
  /\ selectedId = media[3].id
  /\ duration = pre.duration

\* C24: after the store's addClip or addTextOverlay, made with frameRate >= 1,
\* the duration is >= max(contentExtent + 2*frameRate, 10*frameRate) and so
\* greater than the inserted end frame and than every item's endFrame (stated
\* of the calls made on a numeric duration).
C24_InsertLeavesBuffer ==
  (/\ last.op \in {"addClip", "addTextOverlay"}
   /\ pre.frameRate >= 1
   /\ pre.duration # NaN) =>
    /\ duration >= Max2(ContentExtent(State) + 2 * frameRate, 10 * frameRate)
    /\ duration > last.b
    /\ \A e \in EndFrames(State) : duration > e

\* C25 as stated: from the store's default state (empty, frameRate 30) the
\* insert of a clip [0, 150) with its auto-adjust leaves duration = 300.
C25_ScenarioFromDefaultState ==
  (/\ last.op = "addClip"
   /\ pre = DEFAULT_EDITOR_STATE
   /\ last.a = 0 /\ last.b = 150) =>
    duration = 300

\* C25 amended: from an empty state with frameRate 30 and duration d the
\* insert of a clip [0, 150) with its auto-adjust leaves
\* duration = max(max(150 + 60, 300), d): 300 when d <= 300, and d when d is
\* larger, as from the store's default state with d = 900.
C25_ScenarioRatchet ==
  (/\ last.op = "addClip"
   /\ pre.media = <<>> /\ pre.texts = <<>>
   /\ pre.frameRate = 30
   /\ last.a = 0 /\ last.b = 150) =>
    /\ getOptimalTimelineDuration(State, 2) = Max2(150 + 60, 300)
    /\ duration = Max2(Max2(150 + 60, 300), pre.duration)
    /\ pre.duration <= 300 => duration = 300
    /\ pre = DEFAULT_EDITOR_STATE => duration = 900

\* the clip [0, 150) was inserted into an empty store whose duration had been
\* set below 300
C25_Witness ==
  /\ last.op = "addClip"
  /\ pre.media = <<>> /\ pre.texts = <<>>
  /\ pre.frameRate = 30
  /\ last.a = 0 /\ last.b = 150
  /\ pre.duration < 300
  /\ duration = 300

\* the pairs of ids of clips adjacent in start order of which the first ends
\* after the second starts
AdjacentOverlaps(s) ==
  LET sorted == SortedByStartFrame(s.media)
  IN {<<sorted[i].id, sorted[i + 1].id>> :
        i \in {k \in 1..(Len(sorted) - 1) :
                 sorted[k].endFrame > sorted[k + 1].startFrame}}

\* the ids of the clips and overlays with startFrame >= endFrame
InvalidRangeIds(s) ==
  {(s.media \o s.texts)[i].id :
     i \in {k \in 1..(Len(s.media) + Len(s.texts)) :
              (s.media \o s.texts)[k].startFrame >= (s.media \o s.texts)[k].endFrame}}

\* the ids of the clips and overlays with startFrame < 0
NegativeStartIds(s) ==
  {(s.media \o s.texts)[i].id :
     i \in {k \in 1..(Len(s.media) + Len(s.texts)) :
              (s.media \o s.texts)[k].startFrame < 0}}

\* the positions of the diagnostics of one kind in a list of diagnostics
OfKind(errors, kind) == {k \in 1..Len(errors) : errors[k].kind = kind}

\* C26: validateTimelineState returns one overlap diagnostic, naming both
\* ids, for each pair of clips adjacent in start order with
\* previous.endFrame > next.startFrame, one invalid-range diagnostic for each
\* clip or overlay with startFrame >= endFrame, one negative-start diagnostic
\* for each clip or overlay with startFrame < 0, and nothing else (nothing for
\* overlapping overlays); clips [0,60) and [50,100) yield one diagnostic.
C26_ValidateDiagnostics ==
  last.op = "validateTimelineState" =>
    /\ \A k \in 1..Len(returned) :
         returned[k].kind \in {"overlaps", "invalid frame range",
                               "negative start frame"}
    /\ {<<returned[k].id, returned[k].a>> : k \in OfKind(returned, "overlaps")}
         = AdjacentOverlaps(pre)
    /\ {returned[k].id : k \in OfKind(returned, "invalid frame range")}
         = InvalidRangeIds(pre)
    /\ {returned[k].id : k \in OfKind(returned, "negative start frame")}
         = NegativeStartIds(pre)
    /\ Len(returned) = Cardinality(AdjacentOverlaps(pre))
                         + Cardinality(InvalidRangeIds(pre))
                         + Cardinality(NegativeStartIds(pre))
    /\ (/\ Len(pre.media) = 2
        /\ pre.media[1].startFrame = 0 /\ pre.media[1].endFrame = 60
        /\ pre.media[2].startFrame = 50 /\ pre.media[2].endFrame = 100) =>
         Len(returned) = 1

\* clips [0,60) and [50,100) with two overlays on the same ranges: the one
\* diagnostic is the overlap of the two clips
C26_Witness ==
  /\ last.op = "validateTimelineState"
  /\ Len(pre.media) = 2
  /\ pre.media[1].startFrame = 0 /\ pre.media[1].endFrame = 60
  /\ pre.media[2].startFrame = 50 /\ pre.media[2].endFrame = 100
  /\ Len(pre.texts) = 2
  /\ pre.texts[1].endFrame > pre.texts[2].startFrame
  /\ pre.texts[2].endFrame > pre.texts[1].startFrame
  /\ returned = <<[kind |-> "overlaps", id |-> 1, a |-> 2, b |-> Undefined]>>

\* the ids of the clips and overlays whose half-open range contains the frame
VisibleIds(s, frame) ==
  {(s.media \o s.texts)[i].id :
     i \in {k \in 1..(Len(s.media) + Len(s.texts)) :
              /\ (s.media \o s.texts)[k].startFrame <= frame
              /\ frame < (s.media \o s.texts)[k].endFrame}}

\* C27: getItemsAtFrame returns exactly the clips and overlays with
\* startFrame <= f < endFrame, each once and with its own data, listed in
\* non-decreasing startFrame order.
C27_ItemsAtFrameHalfOpen ==
  last.op = "getItemsAtFrame" =>
    /\ {returned[k].id : k \in 1..Len(returned)} = VisibleIds(pre, last.a)
    /\ Len(returned) = Cardinality(VisibleIds(pre, last.a))
    /\ \A k \in 1..Len(returned) :
         /\ returned[k].data \in ItemsWithId(pre, returned[k].id)
         /\ returned[k].startFrame = returned[k].data.startFrame
         /\ returned[k].endFrame = returned[k].data.endFrame
    /\ \A k \in 1..(Len(returned) - 1) :
         returned[k].startFrame <= returned[k + 1].startFrame

\* frame 60 of clips [50,100) and [0,60) in that list order with an overlay
\* [0,60): only the clip [50,100) is visible, the two items that end at 60
\* are not
C27_Witness ==
  /\ last.op = "getItemsAtFrame"
  /\ last.a = 60
  /\ Len(pre.media) = 2
  /\ pre.media[1].startFrame = 50 /\ pre.media[1].endFrame = 100
  /\ pre.media[2].startFrame = 0 /\ pre.media[2].endFrame = 60
  /\ Len(pre.texts) = 1
  /\ pre.texts[1].endFrame = 60
  /\ Len(returned) = 1
  /\ returned[1].id = 1

\* frame 59 of the same clips: both are visible and the later clip of the
\* list, which starts first, is listed first
C27_WitnessSorted ==
  /\ last.op = "getItemsAtFrame"
  /\ last.a = 59
  /\ Len(pre.media) = 2
  /\ pre.media[1].startFrame = 50 /\ pre.media[2].startFrame = 0
  /\ pre.texts = <<>>
  /\ Len(returned) = 2
  /\ returned[1].id = 2
  /\ returned[2].id = 1

C28_Ops == {"calculateTimelineDuration", "getMinimumTimelineDuration"}

\* C28 as stated: calculateTimelineDuration and getMinimumTimelineDuration
\* return the maximum endFrame over all clips and overlays, and 0 when there
\* are none.
C28_ExtentIsMaxEndFrame ==
  last.op \in C28_Ops =>
    IF EndFrames(pre) = {}
      THEN returned = 0
      ELSE /\ returned \in EndFrames(pre)
           /\ \A e \in EndFrames(pre) : e <= returned

\* C28 amended: both return the maximum of 0 and the endFrames of all clips
\* and overlays: the maximum endFrame when some endFrame is >= 0, and 0 when
\* there is no item or every endFrame is negative.
C28_ExtentIsMaxEndFrameOrZero ==
  last.op \in C28_Ops =>
    /\ returned \in EndFrames(pre) \cup {0}
    /\ \A e \in EndFrames(pre) \cup {0} : e <= returned
    /\ calculateTimelineDuration(pre) = getMinimumTimelineDuration(pre)

\* clips and overlays together: the largest end frame is an overlay's
C28_Witness ==
  /\ last.op = "getMinimumTimelineDuration"
  /\ Len(pre.media) > 1
  /\ Len(pre.texts) > 0
  /\ \A i \in 1..Len(pre.media) : pre.media[i].endFrame < returned
  /\ \E j \in 1..Len(pre.texts) : pre.texts[j].endFrame = returned

\* C29, in tenths (0.1 is 1, 1 is 10, 10 is 100): setZoom leaves
\* zoom = min(max(z, 0.1), 10), setMasterVolume leaves
\* masterVolume = min(max(v, 0), 1), setClipVolume on an existing clip leaves
\* that clip's volume = min(max(v, 0), 1), and in every reachable store state
\* zoom is in [0.1, 10] and masterVolume in [0, 1].
C29_ScalarsClamped ==
  /\ 1 <= zoom /\ zoom <= 100
  /\ 0 <= masterVolume /\ masterVolume <= 10
  /\ last.op = "setZoom" => zoom = Min2(Max2(last.a, 1), 100)
  /\ last.op = "setMasterVolume" => masterVolume = Min2(Max2(last.a, 0), 10)
  /\ last.op = "setClipVolume" =>
       \A i \in IndexOf(pre.media, last.id) :
         /\ Get(media[i], "id") = last.id
         /\ media[i].volume = Min2(Max2(last.a, 0), 10)

\* a zoom above 10 was asked for and 10 was stored
C29_Witness ==
  /\ last.op = "setZoom"
  /\ last.a > 100
  /\ pre.zoom < 100
  /\ zoom = 100

\* a volume above 1 was asked for an existing clip and 1 was stored
C29_WitnessClipVolume ==
  /\ last.op = "setClipVolume"
  /\ last.a > 10
  /\ IndexOf(pre.media, last.id) # {}
  /\ \A i \in IndexOf(media, last.id) : media[i].volume = 10

\* C30: in every reachable store state duration >= 0 and frameRate >= 1
\* (the first stated of the states whose duration is a number).
C30_DurationAndFrameRateFloors ==
  /\ duration # NaN => duration >= 0
  /\ frameRate >= 1

---------------------------------------------------------------------------
(* C31 *)

\* C31: after resetState, whatever the store state it was called on, every
\* EditorState field (clips, overlays, selectedId, playhead, frameRate,
\* duration, isPlaying, masterVolume, muted, zoom, scrollPosition) has its
\* default value
C31_ResetRestoresDefaults ==
  last.op = "resetState" =>
    /\ media = DEFAULT_EDITOR_STATE.media
    /\ texts = DEFAULT_EDITOR_STATE.texts
    /\ selectedId = DEFAULT_EDITOR_STATE.selectedId
    /\ playhead = DEFAULT_EDITOR_STATE.playhead
    /\ frameRate = DEFAULT_EDITOR_STATE.frameRate
    /\ duration = DEFAULT_EDITOR_STATE.duration
    /\ isPlaying = DEFAULT_EDITOR_STATE.isPlaying
    /\ masterVolume = DEFAULT_EDITOR_STATE.masterVolume
    /\ muted = DEFAULT_EDITOR_STATE.muted
    /\ zoom = DEFAULT_EDITOR_STATE.zoom
    /\ scrollPosition = DEFAULT_EDITOR_STATE.scrollPosition

\* resetState was called on a store that held a clip, a selection and a
\* duration other than the default
C31_Witness ==
  /\ last.op = "resetState"
  /\ Len(pre.media) > 0
  /\ pre.selectedId # Null
  /\ pre.duration # DefaultDuration

---------------------------------------------------------------------------
(* C32 *)

\* C32: a tick of the preview clock changes the store playhead only if the
\* store was playing when the tick fired and the clock frame differed from the
\* playhead by more than 2 frames; a tick never sets isPlaying to true, and
\* it sets isPlaying to false only when the clock frame is >= duration
C32_ClockSyncThreshold ==
  last.op = "tick" =>
    /\ playhead # pre.playhead =>
         /\ pre.isPlaying
         /\ Gt(MathAbs(Minus(last.a, pre.playhead)), 2)
    /\ isPlaying => pre.isPlaying
    /\ (pre.isPlaying /\ ~isPlaying) => Ge(last.a, pre.duration)

\* a tick moved the playhead of a playing store to the clock frame
C32_Witness ==
  /\ last.op = "tick"
  /\ pre.isPlaying
  /\ isPlaying
  /\ playhead # pre.playhead
  /\ playhead = last.a

\* a tick within the threshold left the playhead of a playing store alone
C32_WitnessWithinThreshold ==
  /\ last.op = "tick"
  /\ pre.isPlaying
  /\ last.a # pre.playhead
  /\ playhead = pre.playhead

\* a tick at the end of the timeline stopped playback
C32_WitnessStopped ==
  /\ last.op = "tick"
  /\ pre.isPlaying
  /\ ~isPlaying
  /\ playhead = duration

---------------------------------------------------------------------------
(* C33 *)

\* C33: reorderClips never loses, duplicates or fabricates a clip: for any
\* integers fromIndex and toIndex (negative, >= the clip count, on an empty
\* list) the returned clip list has the length and the ids of the input, and
\* every entry is one of the input clips with order equal to its index
C33_ReorderPreservesClips ==
  last.op = "reorderClips" =>
    /\ Len(media) = Len(pre.media)
    /\ {Get(media[i], "id") : i \in 1..Len(media)}
         = {Get(pre.media[i], "id") : i \in 1..Len(pre.media)}
    /\ \A i \in 1..Len(media) :
         /\ \E j \in 1..Len(pre.media) : SameButOrder(media[i], pre.media[j])
         /\ Get(media[i], "order") = i - 1

---------------------------------------------------------------------------
(* C34 *)

\* two half-open frame ranges share a frame
RangesIntersect(c1, c2) ==
  Max2(c1.startFrame, c2.startFrame) < Min2(c1.endFrame, c2.endFrame)

\* C34: for clips that all satisfy startFrame < endFrame, validateTimelineState
\* reports at least one overlap diagnostic if and only if two distinct clips
\* have intersecting half-open ranges, adjacent in start order or not
C34_OverlapDetectionComplete ==
  (/\ last.op = "validateTimelineState"
   /\ \A i \in 1..Len(pre.media) :
        pre.media[i].startFrame < pre.media[i].endFrame) =>
    (OfKind(returned, "overlaps") # {}
       <=> \E i, j \in 1..Len(pre.media) :
             i # j /\ RangesIntersect(pre.media[i], pre.media[j]))

\* three clips with frames to show; the first and the last in start order
\* intersect, which the diagnostics report through the adjacent pairs
C34_Witness ==
  /\ last.op = "validateTimelineState"
  /\ Len(pre.media) = 3
  /\ \A i \in 1..3 : pre.media[i].startFrame < pre.media[i].endFrame
  /\ pre.media[3].startFrame < pre.media[1].startFrame
  /\ pre.media[1].startFrame < pre.media[2].startFrame
  /\ RangesIntersect(pre.media[3], pre.media[2])
  /\ OfKind(returned, "overlaps") # {}

\* three clips with frames to show that only touch, listed out of start
\* order: no overlap diagnostic
C34_WitnessDisjoint ==
  /\ last.op = "validateTimelineState"
  /\ Len(pre.media) = 3
  /\ \A i \in 1..3 : pre.media[i].startFrame < pre.media[i].endFrame
  /\ pre.media[2].startFrame < pre.media[1].startFrame
  /\ pre.media[1].endFrame = pre.media[3].startFrame
  /\ OfKind(returned, "overlaps") = {}

---------------------------------------------------------------------------
(* C35 *)

\* C35: once seekTo has been applied to a playing store the store is idle,
\* and until playback is started again every clock tick, whatever frame the
\* clock reports and whether or not it was scheduled before the seek, leaves
\* the playhead where it was
C35_SeekNotOverwritten ==
  /\ seekHeld => ~isPlaying
  /\ (last.op = "tick" /\ seekHeld) => playhead = pre.playhead

\* the interval installed before the seek fired after it, with a clock frame
\* more than 2 frames away from the playhead the seek had set
C35_Witness ==
  /\ last.op = "tick"
  /\ seekHeld
  /\ previewIsPlaying
  /\ Gt(MathAbs(Minus(last.a, pre.playhead)), 2)
  /\ pre.playhead = 5
  /\ playhead = 5

---------------------------------------------------------------------------
(* C36 *)

\* the store plays, the player runs at a numeric frame, and no store call is
\* left that could change the duration: from here on only the clock acts,
\* and the player's frame increases for as long as the store keeps playing
ClockRunning ==
  /\ isPlaying
  /\ previewIsPlaying
  /\ playerFrame # NaN
  /\ calls = MaxCalls

\* a tick has just stopped playback
StoppedByTick == last.op = "tick" /\ pre.isPlaying /\ ~isPlaying

\* C36: if the store is playing, the clock's frame keeps increasing, the
\* ticks keep firing and no other operation changes the duration, then
\* eventually isPlaying becomes false
C36_PlayingLeadsToIdle == ClockRunning ~> ~isPlaying

\* C36: at the moment a tick stops playback, playhead <= duration
C36_StoppedWithinDuration == StoppedByTick => Le(playhead, duration)

---------------------------------------------------------------------------
(* C37 *)

\* C37: in every store state reached by addClip, addTextOverlay, removeItem,
\* trimClip, trimTextOverlay, reorderClips with in-range indices, resetState
\* and selectItem of null or of an existing item, selectedId is null or the id
\* of exactly one item of the clip and overlay lists, so getSelectedItem
\* returns null only when selectedId is null
C37_SelectionIntegrity ==
  /\ selectedId # Null =>
       Cardinality(IndexOf(media, selectedId))
         + Cardinality(IndexOf(texts, selectedId)) = 1
  /\ Len(getSelectedItem(State)) = 0 => selectedId = Null

\* the selected one of two clips was removed: the selection is null and the
\* other clip is still there
C37_Witness ==
  /\ last.op = "removeItem"
  /\ pre.selectedId = last.id
  /\ Len(pre.media) = 2
  /\ Len(media) = 1
  /\ selectedId = Null

\* the unselected one of two items was removed: the selection still names
\* the item that is left
C37_WitnessKept ==
  /\ last.op = "removeItem"
  /\ pre.selectedId # Null
  /\ pre.selectedId # last.id
  /\ Len(pre.media) + Len(pre.texts) = 2
  /\ Len(media) + Len(texts) = 1
  /\ selectedId = pre.selectedId
  /\ Len(getSelectedItem(State)) = 1

---------------------------------------------------------------------------
(* C38 *)

\* two items equal in every field but startFrame and endFrame
SameButRange(c1, c2) ==
  /\ DOMAIN c1 = DOMAIN c2
  /\ \A f \in DOMAIN c1 \ {"startFrame", "endFrame"} : c1[f] = c2[f]

\* the list is the old list with, at most, a new range on the items of the id
TrimmedOnly(items, old, id) ==
  /\ Len(items) = Len(old)
  /\ \A i \in 1..Len(old) :
       IF Get(old[i], "id") = id
         THEN SameButRange(items[i], old[i])
         ELSE items[i] = old[i]

\* C38: the pure trimClip changes only startFrame and endFrame of the clip
\* whose id matches: every other clip, every overlay, the list order and the
\* order fields, selectedId, playhead, duration, isPlaying, zoom and volumes
\* are unchanged; trimTextOverlay likewise changes only the matched
\* overlay's range
C38_TrimFrame ==
  /\ last.op = "trimClip" =>
       /\ TrimmedOnly(media, pre.media, last.id)
       /\ [State EXCEPT !.media = pre.media] = pre
  /\ last.op = "trimTextOverlay" =>
       /\ TrimmedOnly(texts, pre.texts, last.id)
       /\ [State EXCEPT !.texts = pre.texts] = pre

\* trimClip gave the first of two clips a new range in a playing state that
\* holds an overlay and a selection
C38_Witness ==
  /\ last.op = "trimClip"
  /\ last.id = 1
  /\ Len(pre.media) = 2
  /\ Len(pre.texts) = 1
  /\ pre.isPlaying
  /\ pre.selectedId # Null
  /\ media[1].startFrame # pre.media[1].startFrame
  /\ media[1].endFrame # pre.media[1].endFrame
  /\ media[2] = pre.media[2]

\* trimTextOverlay gave the overlay a new range next to two clips
C38_WitnessText ==
  /\ last.op = "trimTextOverlay"
  /\ Len(pre.media) = 2
  /\ Len(pre.texts) = 1
  /\ last.id = pre.texts[1].id
  /\ texts[1].endFrame # pre.texts[1].endFrame

---------------------------------------------------------------------------
(* C39 *)

\* C39, the functions: for a state with frameRate >= 1, auto-adjusting the
\* fitted state gives the optimal duration of the state, and that is strictly
\* greater than the fitted duration
C39_FitThenAutoAdjust ==
  (last.op = "fitTimelineToContent" /\ frameRate >= 1) =>
    /\ autoAdjustTimelineDuration(State).duration
         = getOptimalTimelineDuration(pre, 2)
    /\ Gt(autoAdjustTimelineDuration(State).duration, duration)

\* C39, the store: addClip or addTextOverlay called after fitTimelineToContent
\* re-extends the timeline to at least 10 * frameRate
C39_InsertAfterFitStep ==
  (/\ last.op = "fitTimelineToContent"
   /\ calls' = calls + 1
   /\ last'.op \in {"addClip", "addTextOverlay"}
   /\ frameRate >= 1) =>
    Ge(duration', Times(10, frameRate'))

C39_InsertAfterFitExtends == [][C39_InsertAfterFitStep]_vars

===========================================================================
